---- MODULE Spec2Model ----
(***************************************************************************)
(* Model of app.py, the webhook facade over the calendar API: the          *)
(* handlers that check availability, create, cancel and reschedule an      *)
(* event.  A handler is one action and runs to completion; the state       *)
(* after it is its request, the upstream calls it issued, what the         *)
(* upstream answered and the response it produced.                         *)
(* Naive datetimes are integers counting minutes since day 0, 00:00.       *)
(***************************************************************************)
EXTENDS Integers, Sequences, FiniteSets, TLC

VARIABLES pc, req, calls, busy_slots, window, resp

vars == <<pc, req, calls, busy_slots, window, resp>>

\* Bounds of the model.
MaxDay == 1
MaxBusy == 2

Days == 0..MaxDay

----------------------------------------------------------------------------
\* datetime / timedelta arithmetic on naive datetimes

DayMinutes == 24 * 60

timedelta_halfHours(days, hours) == days * DayMinutes + hours * 30

timedelta(days, hours) == days * DayMinutes + hours * 60

\* datetime.replace(hour=h, minute=0, second=0, microsecond=0)
replace(dt, h) == (dt \div DayMinutes) * DayMinutes + h * 60

\* strftime('%Y-%m-%d %H:%M'): the calendar date and the 24-hour clock.
strftime(dt) ==
    [ymd |-> dt \div DayMinutes,
     HH  |-> (dt % DayMinutes) \div 60,
     MM  |-> dt % 60]

\* strftime('%I:%M %p'): the 12-hour clock, without the date.
strftime12(dt) ==
    LET h == (dt % DayMinutes) \div 60
    IN [I  |-> IF h % 12 = 0 THEN 12 ELSE h % 12,
        MM |-> dt % 60,
        p  |-> IF h < 12 THEN "AM" ELSE "PM"]

\* strftime('%Y-%m-%d')
strftimeDate(dt) == dt \div DayMinutes

----------------------------------------------------------------------------
\* Request texts: a text is a sequence of characters; a character is a
\* record, blank or not.  A whole date or word stands for one character.

SP == [kind |-> "space", day |-> 0]
Ch(k) == [kind |-> k, day |-> 0]
Ymd(d) == [kind |-> "ymd", day |-> d]

RECURSIVE lstrip(_)
lstrip(s) == IF s # <<>> /\ Head(s) = SP THEN lstrip(Tail(s)) ELSE s

RECURSIVE rstrip(_)
rstrip(s) ==
    IF s # <<>> /\ s[Len(s)] = SP THEN rstrip(SubSeq(s, 1, Len(s) - 1)) ELSE s

strip_leftOnly(s) == IF s # <<>> /\ Head(s) = SP THEN Tail(s) ELSE s

\* str.strip()
strip(s) == rstrip(lstrip(s))

\* str.lower()
lower(s) ==
    [i \in 1..Len(s) |->
        IF s[i].kind = "TODAY" THEN Ch("today")
        ELSE IF s[i].kind = "Tomorrow" THEN Ch("tomorrow")
        ELSE s[i]]

\* dict.get(key, default)
get(data, key, default) == IF key \in DOMAIN data THEN data[key] ELSE default

\* datetime.strptime(date_str, '%Y-%m-%d'): a date alone parses, to 00:00 of
\* that day; anything else raises.
strptimeOk(s) == Len(s) = 1 /\ s[1].kind = "ymd"
strptime(s) == s[1].day * DayMinutes

----------------------------------------------------------------------------
\* Timestamps of the upstream free/busy answer: ISO strings, wall-clock
\* minutes and a zone suffix, "Z" or a numeric offset.

\* busy['start'].replace('Z', '')
replaceZ(iso) == [iso EXCEPT !.suffix = IF @ = "Z" THEN "" ELSE @]

\* datetime.fromisoformat: aware exactly when a suffix is left.
fromisoformat(iso) == [t |-> iso.t, aware |-> iso.suffix # ""]

\* current < busy_end and slot_end > busy_start, current and slot_end naive.
\* Comparing a naive with an aware datetime raises TypeError; `and` does not
\* evaluate its right operand when the left one is false.
Conflict_startInside(current, slot_end, busy_start, busy_end) ==
    IF busy_end.aware THEN "raise"
    ELSE IF ~(current < busy_end.t) THEN "no"
    ELSE IF busy_start.aware THEN "raise"
    ELSE IF current >= busy_start.t THEN "yes" ELSE "no"

Conflict_closed(current, slot_end, busy_start, busy_end) ==
    IF busy_end.aware THEN "raise"
    ELSE IF ~(current <= busy_end.t) THEN "no"
    ELSE IF busy_start.aware THEN "raise"
    ELSE IF slot_end >= busy_start.t THEN "yes" ELSE "no"

Conflict_endOnly(current, slot_end, busy_start, busy_end) ==
    IF busy_end.aware THEN "raise"
    ELSE IF current < busy_end.t THEN "yes" ELSE "no"

Conflict(current, slot_end, busy_start, busy_end) ==
    IF busy_end.aware THEN "raise"
    ELSE IF ~(current < busy_end.t) THEN "no"
    ELSE IF busy_start.aware THEN "raise"
    ELSE IF slot_end > busy_start.t THEN "yes" ELSE "no"

CheckConflicts_firstOnly(current, slot_end, busy, i) ==
    IF i > Len(busy) THEN "free"
    ELSE LET c == Conflict(current, slot_end,
                           fromisoformat(replaceZ(busy[i].start)),
                           fromisoformat(replaceZ(busy[i].end)))
         IN IF c = "raise" THEN "raise" ELSE IF c = "yes" THEN "busy" ELSE "free"

\* for busy in busy_slots: ... break.  "free", "busy" or "raise".
RECURSIVE CheckConflicts(_, _, _, _)
CheckConflicts(current, slot_end, busy, i) ==
    IF i > Len(busy) THEN "free"
    ELSE LET busy_start == fromisoformat(replaceZ(busy[i].start))
             busy_end   == fromisoformat(replaceZ(busy[i].end))
             c == Conflict(current, slot_end, busy_start, busy_end)
         IN IF c = "raise" THEN "raise"
            ELSE IF c = "yes" THEN "busy"
            ELSE CheckConflicts(current, slot_end, busy, i + 1)

FreeSlotEntry_endIsStart(current, slot_end) ==
    [start   |-> strftime(current),
     end     |-> strftime(current),
     display |-> <<strftime12(current), strftime12(slot_end)>>]

\* free_slots.append({'start': ..., 'end': ..., 'display': ...})
FreeSlotEntry(current, slot_end) ==
    [start   |-> strftime(current),
     end     |-> strftime(slot_end),
     display |-> <<strftime12(current), strftime12(slot_end)>>]

LoopGuard_inclusive(current, end_time) == current <= end_time

\* while current < end_time
LoopGuard(current, end_time) == current < end_time

\* The loop that finds the free 1-hour slots.
RECURSIVE FindFreeSlots(_, _, _, _)
FindFreeSlots(current, end_time, busy, free_slots) ==
    IF ~LoopGuard(current, end_time)
    THEN [raised |-> FALSE, free_slots |-> free_slots]
    ELSE LET slot_end == current + timedelta(0, 1)
             c == CheckConflicts(current, slot_end, busy, 1)
         IN IF c = "raise"
            THEN [raised |-> TRUE, free_slots |-> <<>>]
            ELSE FindFreeSlots(slot_end, end_time, busy,
                     IF c = "free"
                     THEN Append(free_slots, FreeSlotEntry(current, slot_end))
                     ELSE free_slots)

----------------------------------------------------------------------------
\* Responses

NoWindow == [start |-> 0, end |-> 0]

Ok(body) == [status |-> 200, success |-> TRUE, error |-> "", body |-> body]
BadRequest(msg) == [status |-> 400, success |-> FALSE, error |-> msg, body |-> <<>>]
ServerError(msg) == [status |-> 500, success |-> FALSE, error |-> msg, body |-> <<>>]

\* The handler ends: its request, the upstream calls it made, the busy list
\* it received, its working-hours window, its response.
Finish(r, cs, busy, w, response) ==
    /\ pc' = "responded"
    /\ req' = r
    /\ calls' = cs
    /\ busy_slots' = busy
    /\ window' = w
    /\ resp' = response

----------------------------------------------------------------------------
\* Inputs

Texts == {<<>>, <<SP, SP>>, <<Ch("word")>>, <<SP, Ch("word"), SP>>}

DateTexts ==
    {<<>>, <<SP>>, <<Ch("today")>>, <<SP, Ch("TODAY")>>, <<Ch("Tomorrow"), SP>>,
     <<Ch("word")>>, <<Ch("today"), Ch("word")>>}
    \cup {<<Ymd(d)>> : d \in Days} \cup {<<SP, Ymd(d), SP>> : d \in Days}

\* JSON bodies: any subset of the keys, each with a text.
Bodies(keys, texts) == UNION {[ks -> texts] : ks \in SUBSET keys}

\* datetime.now(): some day, early or late.
Nows == {d * DayMinutes + c : d \in Days, c \in {0, 23 * 60 + 59}}

\* Busy timestamps the upstream may answer with, relative to 00:00 of the
\* queried day: the evening before and around the working hours.
Marks == {0 - 6 * 60, 9 * 60, 10 * 60, 10 * 60 + 30, 17 * 60, 18 * 60}

\* Busy intervals, start < end: between any two marks, or from the end of
\* the working hours to the next morning.
Spans == {p \in Marks \X Marks : p[1] < p[2]} \cup {<<18 * 60, 33 * 60>>}

Suffixes == {"Z", "+05:30"}

\* The upstream formats every timestamp of one answer alike.
BusyIntervals(day0, suffix) ==
    {[start |-> [t |-> day0 + p[1], suffix |-> suffix],
      end   |-> [t |-> day0 + p[2], suffix |-> suffix]] : p \in Spans}

SeqsUpTo(S, n) == UNION {[1..k -> S] : k \in 0..n}

BusyLists(day0) ==
    UNION {SeqsUpTo(BusyIntervals(day0, sfx), MaxBusy) : sfx \in Suffixes}

----------------------------------------------------------------------------
Init ==
    /\ pc = "idle"
    /\ req = [handler |-> "none", data |-> <<>>]
    /\ calls = <<>>
    /\ busy_slots = <<>>
    /\ window = NoWindow
    /\ resp = Ok(<<>>)

\* POST /webhook/check-availability.  The request's timezone goes into the
\* query unread; no branch of the handler depends on it.
check_availability ==
    /\ pc = "idle"
    /\ \E data \in Bodies({"date"}, DateTexts) :
      LET r == [handler |-> "check_availability", data |-> data]
          date_str == strip(get(data, "date", <<>>))
          date_str_lower == lower(date_str)
      IN
      IF date_str = <<>>
      THEN Finish(r, <<>>, <<>>, NoWindow, BadRequest("date parameter required"))
      ELSE IF date_str_lower # <<Ch("today")>> /\ date_str_lower # <<Ch("tomorrow")>>
              /\ ~strptimeOk(date_str)
      THEN Finish(r, <<>>, <<>>, NoWindow, BadRequest("Invalid date format"))
      ELSE \E target_date \in
                  IF date_str_lower = <<Ch("today")>> THEN Nows
                  ELSE IF date_str_lower = <<Ch("tomorrow")>>
                  THEN {now + timedelta(1, 0) : now \in Nows}
                  ELSE {strptime(date_str)} :
        LET start_time == replace(target_date, 9)
            end_time == replace(target_date, 18)
            w == [start |-> start_time, end |-> end_time]
        IN
        \* get_calendar_service() may raise (token refresh)
        \/ Finish(r, <<"auth">>, <<>>, w, ServerError("auth"))
        \* freebusy().query().execute() may raise
        \/ Finish(r, <<"auth", "freebusy.query">>, <<>>, w, ServerError("upstream"))
        \/ \E busy \in BusyLists(replace(target_date, 0)) :
             LET found == FindFreeSlots(start_time, end_time, busy, <<>>)
             IN IF found.raised
                THEN Finish(r, <<"auth", "freebusy.query">>, busy, w,
                            ServerError("TypeError"))
                ELSE Finish(r, <<"auth", "freebusy.query">>, busy, w,
                            Ok([date |-> strftimeDate(target_date),
                                free_slots |-> found.free_slots,
                                count |-> Len(found.free_slots)]))

\* POST /webhook/create-event
create_event ==
    /\ pc = "idle"
    /\ \E data \in Bodies({"client_name", "client_email", "start_time",
                           "end_time", "description"}, Texts) :
      LET r == [handler |-> "create_event", data |-> data]
          client_name == strip(get(data, "client_name", <<>>))
          client_email == strip(get(data, "client_email", <<>>))
          start_time == strip(get(data, "start_time", <<>>))
          end_time == strip(get(data, "end_time", <<>>))
          description == strip(get(data, "description", <<>>))
          event == [summary |-> <<Ch("Appointment with")>> \o client_name,
                    description |->
                        IF description # <<>> THEN description
                        ELSE <<Ch("Appointment booked for")>> \o client_name,
                    start |-> start_time,
                    end |-> end_time,
                    attendees |-> <<client_email>>]
      IN
      IF client_name = <<>>
      THEN Finish(r, <<>>, <<>>, NoWindow, BadRequest("client_name required"))
      ELSE IF client_email = <<>>
      THEN Finish(r, <<>>, <<>>, NoWindow, BadRequest("client_email required"))
      ELSE IF start_time = <<>>
      THEN Finish(r, <<>>, <<>>, NoWindow, BadRequest("start_time required"))
      ELSE IF end_time = <<>>
      THEN Finish(r, <<>>, <<>>, NoWindow, BadRequest("end_time required"))
      ELSE
        \/ Finish(r, <<"auth">>, <<>>, NoWindow, ServerError("auth"))
        \/ Finish(r, <<"auth", "events.insert">>, <<>>, NoWindow,
                  ServerError("upstream"))
        \/ Finish(r, <<"auth", "events.insert">>, <<>>, NoWindow,
                  Ok([client_name |-> client_name,
                      client_email |-> client_email,
                      start |-> event.start,
                      end |-> event.end]))

\* POST /webhook/cancel-event
cancel_event ==
    /\ pc = "idle"
    /\ \E data \in Bodies({"event_id"}, Texts) :
      LET r == [handler |-> "cancel_event", data |-> data]
          event_id == strip(get(data, "event_id", <<>>))
      IN
      IF event_id = <<>>
      THEN Finish(r, <<>>, <<>>, NoWindow, BadRequest("event_id required"))
      ELSE
        \/ Finish(r, <<"auth">>, <<>>, NoWindow, ServerError("auth"))
        \/ Finish(r, <<"auth", "events.delete">>, <<>>, NoWindow,
                  ServerError("upstream"))
        \/ Finish(r, <<"auth", "events.delete">>, <<>>, NoWindow,
                  Ok([message |-> "Event cancelled successfully"]))

\* POST /webhook/reschedule-event
reschedule_event ==
    /\ pc = "idle"
    /\ \E data \in Bodies({"event_id", "new_start_time", "new_end_time"}, Texts) :
      LET r == [handler |-> "reschedule_event", data |-> data]
          event_id == strip(get(data, "event_id", <<>>))
          new_start == strip(get(data, "new_start_time", <<>>))
          new_end == strip(get(data, "new_end_time", <<>>))
      IN
      IF event_id = <<>> \/ new_start = <<>> \/ new_end = <<>>
      THEN Finish(r, <<>>, <<>>, NoWindow,
                  BadRequest("event_id, new_start_time, new_end_time required"))
      ELSE
        \/ Finish(r, <<"auth">>, <<>>, NoWindow, ServerError("auth"))
        \/ Finish(r, <<"auth", "events.get">>, <<>>, NoWindow,
                  ServerError("upstream"))
        \* the event fetched has no start.dateTime (an all-day event)
        \/ Finish(r, <<"auth", "events.get">>, <<>>, NoWindow,
                  ServerError("KeyError"))
        \/ Finish(r, <<"auth", "events.get", "events.update">>, <<>>, NoWindow,
                  ServerError("upstream"))
        \/ Finish(r, <<"auth", "events.get", "events.update">>, <<>>, NoWindow,
                  Ok([new_start |-> new_start, new_end |-> new_end]))

\* The server goes on to the next request; nothing of the last one is kept.
NextRequest ==
    /\ pc = "responded"
    /\ pc' = "idle"
    /\ req' = [handler |-> "none", data |-> <<>>]
    /\ calls' = <<>>
    /\ busy_slots' = <<>>
    /\ window' = NoWindow
    /\ resp' = Ok(<<>>)

Next ==
    \/ check_availability
    \/ create_event
    \/ cancel_event
    \/ reschedule_event
    \/ NextRequest

Spec == Init /\ [][Next]_vars

----------------------------------------------------------------------------
\* Properties

\* timedelta(hours=1), in minutes
SlotMinutes == 60

\* The handler of the last request was check-availability.
Checked == pc = "responded" /\ req.handler = "check_availability"

\* ... and its free-slot loop ran, to a result or to an exception.
Computed ==
    /\ Checked
    /\ calls = <<"auth", "freebusy.query">>
    /\ resp.error # "upstream"

\* ... and it answered with a slot list.
Served == Computed /\ resp.status = 200

Slots == resp.body.free_slots

\* A printed 'YYYY-MM-DD HH:MM' read back as minutes.
Minutes(f) == f.ymd * DayMinutes + f.HH * 60 + f.MM
SlotStart(i) == Minutes(Slots[i].start)
SlotEnd(i) == Minutes(Slots[i].end)

\* Half-open overlap of [a0, a1) and [b0, b1).
HalfOpenOverlap(a0, a1, b0, b1) == a0 < b1 /\ a1 > b0

\* The k-th candidate of the window overlaps no busy interval.
CandidateFree(k) ==
    \A j \in 1..Len(busy_slots) :
        ~HalfOpenOverlap(window.start + k * SlotMinutes,
                         window.start + (k + 1) * SlotMinutes,
                         busy_slots[j].start.t, busy_slots[j].end.t)

Candidates == 0..(((window.end - window.start) \div SlotMinutes) - 1)

\* The slot list is exactly the candidates ks, in increasing order.
SlotsAre(ks) ==
    /\ Len(Slots) = Cardinality(ks)
    /\ \A i \in 1..Len(Slots) : \E k \in ks :
          /\ SlotStart(i) = window.start + k * SlotMinutes
          /\ SlotEnd(i) = window.start + (k + 1) * SlotMinutes
    /\ \A i \in 1..(Len(Slots) - 1) : SlotStart(i) < SlotStart(i + 1)

\* C1: no slot of the result overlaps any busy interval (half-open test),
\* whatever the busy list: empty, unordered, overlapping, outside the window.
C1_NoSlotOverlapsBusy ==
    Served =>
        \A i \in 1..Len(Slots) : \A j \in 1..Len(busy_slots) :
            ~(SlotStart(i) < busy_slots[j].end.t /\ SlotEnd(i) > busy_slots[j].start.t)

\* An unordered busy list with an interval outside the window, some
\* candidates free and some not.
C1_Witness ==
    /\ Served
    /\ Len(busy_slots) = 2
    /\ busy_slots[1].start.t > busy_slots[2].start.t
    /\ busy_slots[2].end.t <= window.start
    /\ Len(Slots) > 0
    /\ Len(Slots) < Cardinality(Candidates)

\* C2: the result is exactly the candidates window.start + k * 1h that
\* overlap no busy interval, in strictly increasing order, none omitted,
\* duplicated or merged.
C2_ExactlyTheFreeCandidates ==
    Served => SlotsAre({k \in Candidates : CandidateFree(k)})

\* Two overlapping busy intervals, the second one alone excluding a candidate.
C2_Witness ==
    /\ Served
    /\ Len(busy_slots) = 2
    /\ HalfOpenOverlap(busy_slots[1].start.t, busy_slots[1].end.t,
                       busy_slots[2].start.t, busy_slots[2].end.t)
    /\ busy_slots[1].end.t < busy_slots[2].end.t
    /\ Len(Slots) > 0
    /\ Len(Slots) < Cardinality(Candidates) - 1

C4_EmptyBusyAllCandidates ==
    (Served /\ busy_slots = <<>>) =>
        /\ Len(Slots) = (window.end - window.start) \div SlotMinutes
        /\ Len(Slots) > 0 => SlotStart(1) = window.start
        /\ \A i \in 1..(Len(Slots) - 1) : SlotStart(i + 1) = SlotEnd(i)
        /\ \A i \in 1..Len(Slots) : SlotStart(i) < SlotEnd(i)

C4_Witness ==
    /\ Served
    /\ busy_slots = <<>>
    /\ Len(Slots) = 9
    /\ window.start > DayMinutes

\* C5: the free-slot computation fails with InvalidArgument exactly when the
\* window is malformed (start >= end); InvalidArgument is its only error, and
\* every other input yields a result, never an error.
C5_OnlyInvalidArgument ==
    Computed =>
        /\ window.start < window.end => resp.status = 200
        /\ window.start >= window.end => resp.error = "InvalidArgument"

\* The scenario: one busy interval, 09:00-10:30 of the window's day, and a
\* slot list returned.
Scenario0900to1030 ==
    /\ Served
    /\ Len(busy_slots) = 1
    /\ busy_slots[1].start.t = window.start
    /\ busy_slots[1].end.t = window.start + SlotMinutes + 30

\* C6, as stated: busy 09:00-10:30 leaves the seven slots 10:30-11:30,
\* 11:30-12:30, ..., 16:30-17:30.
C6_SlotsFromHalfPastTen ==
    Scenario0900to1030 =>
        /\ Len(Slots) = 7
        /\ \A i \in 1..Len(Slots) :
              /\ SlotStart(i) = window.start + 30 + i * SlotMinutes
              /\ SlotEnd(i) = SlotStart(i) + SlotMinutes

\* C6, amended: busy 09:00-10:30 leaves the seven slots 11:00-12:00,
\* 12:00-13:00, ..., 17:00-18:00, in that order.
C6_SlotsFromEleven ==
    Scenario0900to1030 =>
        /\ Len(Slots) = 7
        /\ \A i \in 1..Len(Slots) :
              /\ Slots[i].start = [ymd |-> resp.body.date, HH |-> 10 + i, MM |-> 0]
              /\ Slots[i].end = [ymd |-> resp.body.date, HH |-> 11 + i, MM |-> 0]

C6_Witness == Scenario0900to1030 /\ Len(Slots) = 7 /\ resp.body.date = 1

\* C8: a single busy interval [window.start, window.start + 1h) excludes the
\* first candidate only; the second one, touching it, is free.
FirstSlotBusy ==
    /\ Served
    /\ Len(busy_slots) = 1
    /\ busy_slots[1].start.t = window.start
    /\ busy_slots[1].end.t = window.start + SlotMinutes

C8_OnlyFirstCandidateExcluded ==
    FirstSlotBusy =>
        /\ SlotsAre(Candidates \ {0})
        /\ SlotStart(1) = busy_slots[1].end.t

C8_Witness == FirstSlotBusy /\ Len(Slots) = 8

\* C9: a busy interval that lies fully outside the window has no effect: the
\* result for a busy list holding one, at any position, is the result for
\* the list without it.
Outside(b) == b.end.t <= window.start \/ b.start.t >= window.end

Remove(seq, i) == SubSeq(seq, 1, i - 1) \o SubSeq(seq, i + 1, Len(seq))

Outcome(busy) == FindFreeSlots(window.start, window.end, busy, <<>>)

C9_OutsideIntervalNoEffect ==
    Served =>
        \A i \in 1..Len(busy_slots) :
            Outside(busy_slots[i]) =>
                Outcome(Remove(busy_slots, i)) = [raised |-> FALSE, free_slots |-> Slots]

\* An interval after the window, listed before one that overlaps the window.
C9_Witness ==
    /\ Served
    /\ Len(busy_slots) = 2
    /\ busy_slots[1].start.t >= window.end
    /\ ~Outside(busy_slots[2])
    /\ Len(Slots) > 0

\* C10: a request with a required field missing or blank is answered 400,
\* success false, and no upstream call is made, the service not obtained.
Blank(s) == \A i \in 1..Len(s) : s[i] = SP

Required ==
    [check_availability |-> {"date"},
     create_event |-> {"client_name", "client_email", "start_time", "end_time"},
     cancel_event |-> {"event_id"},
     reschedule_event |-> {"event_id", "new_start_time", "new_end_time"}]

RequiredMissing ==
    /\ pc = "responded"
    /\ \E key \in Required[req.handler] :
          key \notin DOMAIN req.data \/ Blank(req.data[key])

====
